---------------------------- MODULE Spec2Model ----------------------------
(***************************************************************************)
(* Ani-Match: the content recommender get_recommendations                  *)
(* (src/storeage.txt) and the search forms of the frontend                 *)
(* (SearchSection.tsx with its parent page Index.tsx, and the two          *)
(* SearchForm variants).                                                   *)
(*                                                                         *)
(* Conventions.  Strings that the code inspects character by character     *)
(* (titles, input texts) are sequences of one-character strings.           *)
(* Catalog positions are 1-based here (pandas positions are 0-based).      *)
(* Similarity scores are integers in thousandths (1000 is 1.0).            *)
(***************************************************************************)
EXTENDS Integers, Sequences, FiniteSets, TLC

\* ------------------------------------------------------------------ bounds
MaxItems == 3      \* largest catalog
MaxCount == 3      \* largest n passed to get_recommendations
MaxTextLen == 1    \* longest text typed into a title field
MaxScores == 2     \* longest score list handed to the combiner
MaxFetches == 2    \* most fetches of the hook in flight at once

Min(a, b) == IF a < b THEN a ELSE b
Max(a, b) == IF a > b THEN a ELSE b

Strings(chars, maxLen) == UNION { [1..k -> chars] : k \in 0..maxLen }

\* ------------------------------------------------------------------- state
\* get_recommendations: df and similarity_matrix are the arguments every
\* call is given (the loaded catalog and the precomputed matrix); call, idx,
\* sim_scores, ret and stdout are the arguments, locals, return value and
\* printed line of the latest call.
VARIABLES df, similarity_matrix, call, idx, sim_scores, ret, stdout

engineVars == <<df, similarity_matrix, call, idx, sim_scores, ret, stdout>>

\* SearchSection: title, userId, method, count, selectedType,
\* availableTypes, typesLoading are the component's useState cells;
\* typesFetch is the position of the fetchAvailableTypes effect; loading is
\* the page's flag handed down as the loading prop; emitted is what the
\* latest step handed to a callback prop or to toast (Nothing when it
\* called none).
VARIABLES title, userId, method, count, selectedType, availableTypes,
          typesLoading, typesFetch, loading, emitted

sectionVars == <<title, userId, method, count, selectedType, availableTypes,
                 typesLoading, typesFetch, loading, emitted>>

\* SearchForm (both versions): formData is the component's useState cell,
\* isLoading its prop, formEmitted what the latest step handed to onSearch
\* (Nothing when it called none).
VARIABLES formData, isLoading, formEmitted

formVars == <<formData, isLoading, formEmitted>>

\* useAnimeRecommendations (both versions): results, error and
\* hookIsLoading are the hook's useState cells (hookIsLoading is its
\* isLoading), fetches the number of its fetches in flight, lastFetch the
\* params and URL of the latest fetch it issued.
VARIABLES results, error, hookIsLoading, fetches, lastFetch

hookVars == <<results, error, hookIsLoading, fetches, lastFetch>>

\* Query Resolver and Hybrid Combiner: request is the latest operation and
\* its arguments, result what it returned.
VARIABLES request, result

serviceVars == <<request, result>>

\* Index page: recommendations, currentMethod and currentFilter are the
\* page's useState cells (its loading cell is the loading above); pending
\* holds the requests whose fetch has not settled, in the order they
\* started.
VARIABLES recommendations, currentMethod, currentFilter, pending

pageVars == <<recommendations, currentMethod, currentFilter, pending>>

\* AuthProvider: user, session and authLoading are the provider
\* component's useState cells (authLoading is its loading);
\* initialSession is the position of getInitialSession and the session its
\* getSession call read; providerSession is the session the auth client
\* currently holds; events are the auth state changes the client has
\* emitted and not yet handed to the subscribed callback; lastToast is the
\* latest toast shown; settled is the latest operation called through the
\* context and how its promise settled.
VARIABLES user, session, authLoading, initialSession, providerSession, events,
          lastToast, settled

authVars == <<user, session, authLoading, initialSession, providerSession, events,
              lastToast, settled>>

\* RecommendationCard: anime and cardType are the component's props anime
\* and type; rendered is what rendering it produced (Nothing before).
VARIABLES anime, cardType, rendered

cardVars == <<anime, cardType, rendered>>

vars == <<engineVars, sectionVars, formVars, hookVars, serviceVars, pageVars, authVars,
          cardVars>>

\* what the steps of one component leave alone
exceptSection == <<engineVars, formVars, hookVars, serviceVars, pageVars, authVars, cardVars>>
exceptForm == <<engineVars, sectionVars, hookVars, serviceVars, pageVars, authVars, cardVars>>
exceptHook == <<engineVars, sectionVars, formVars, serviceVars, pageVars, authVars, cardVars>>
exceptPage == <<engineVars, formVars, hookVars, serviceVars, authVars, cardVars>>
exceptAuth == <<engineVars, sectionVars, formVars, hookVars, serviceVars, pageVars, cardVars>>

\* ------------------------------------------------- get_recommendations
\* Python's None passed as the title argument
None == <<"None">>

\* titles passed to get_recommendations: None, "", and strings that match
\* catalog names exactly, by containment only, or not at all
QueryTitles ==
    { None, <<>>, <<"a">>, <<"A">>, <<"b">>, <<"a", "b">>, <<"A", "B">>, <<"b", "b">> }

\* catalog rows: the 'name' column and, standing for the genre, rating and
\* popularity columns, the position feat of the row's feature vector
ItemPool ==
    { [name |-> <<"A", "b">>,      feat |-> 0, type |-> "tv"],
      [name |-> <<"a">>,           feat |-> 0, type |-> "tv"],
      [name |-> <<"a">>,           feat |-> 1, type |-> "movie"],
      [name |-> <<"b", "a">>,      feat |-> 1, type |-> "movie"],
      [name |-> <<"b", "a">>,      feat |-> 2, type |-> "tv"],
      [name |-> <<"b", "a", "b">>, feat |-> 0, type |-> "movie"],
      [name |-> <<"b", "a", "b">>, feat |-> 2, type |-> "tv"] }

\* the catalogs loaded: up to MaxItems rows, every title once
Catalogs ==
    UNION { { d \in [1..k -> ItemPool] :
                \A i, j \in 1..k : d[i].name = d[j].name => i = j } : k \in 0..MaxItems }

\* similarity of two feature vectors in thousandths: 1000 for identical
\* vectors, symmetric, lower the further apart they are
Similarity(f, g) == 1000 - 4 * (IF f > g THEN f - g ELSE g - f)

\* the precomputed pairwise matrix of a catalog
SimilarityIndex(d) ==
    [i \in 1..Len(d) |-> [j \in 1..Len(d) |-> Similarity(d[i].feat, d[j].feat)]]

\* df['name']
names(d) == [i \in 1..Len(d) |-> d[i].name]

\* str.lower() / str.upper() of one character
lower(c) == CASE c = "A" -> "a" [] c = "B" -> "b" [] OTHER -> c
upper(c) == CASE c = "a" -> "A" [] c = "b" -> "B" [] OTHER -> c

str_lower(s) == [k \in 1..Len(s) |-> lower(s[k])]
str_upper(s) == [k \in 1..Len(s) |-> upper(s[k])]

\* Python's `pat in s`
IsSubstring(pat, s) ==
    \E k \in 0..(Len(s) - Len(pat)) : SubSeq(s, k + 1, k + Len(pat)) = pat

\* df['name'].str.lower() == title.lower()
exact_matches(d, query) ==
    [i \in 1..Len(d) |-> str_lower(d[i].name) = str_lower(query)]

\* df['name'].str.contains(title, case=False, regex=False)
contains_matches(d, query) ==
    [i \in 1..Len(d) |-> IsSubstring(str_upper(query), str_upper(d[i].name))]

any(mask) == \E i \in DOMAIN mask : mask[i]

\* the last True instead of the first
idxmax_last(mask) ==
    CHOOSE i \in DOMAIN mask : mask[i] /\ \A j \in DOMAIN mask : j > i => ~mask[j]

\* Series.idxmax() of a boolean mask that has a True: the first True
idxmax(mask) ==
    CHOOSE i \in DOMAIN mask : mask[i] /\ \A j \in DOMAIN mask : j < i => ~mask[j]

\* containment alone, without the exact-match priority
resolve_contains_first(d, query) ==
    IF any(contains_matches(d, query)) THEN idxmax(contains_matches(d, query))
    ELSE 0

\* lines 5-15: the row the title resolves to, 0 when nothing matches
resolve(d, query) ==
    IF any(exact_matches(d, query)) THEN idxmax(exact_matches(d, query))
    ELSE IF any(contains_matches(d, query)) THEN idxmax(contains_matches(d, query))
    ELSE 0

\* the sort keyed on the scores as displayed, rounded to two decimals
SortsBeforeRounded(row, a, b) ==
    LET shown(x) == (x + 5) \div 10
    IN  shown(row[a]) > shown(row[b]) \/ (shown(row[a]) = shown(row[b]) /\ a < b)

\* descending score with ties in reversed order, as sorting ascending and
\* then reversing the list would give
SortsBeforeTiesReversed(row, a, b) ==
    row[a] > row[b] \/ (row[a] = row[b] /\ a > b)

\* order of sorted(..., key=score, reverse=True): descending score, and
\* elements with equal keys keep their original order (the sort is stable
\* also under reverse=True)
SortsBefore(row, a, b) ==
    row[a] > row[b] \/ (row[a] = row[b] /\ a < b)

\* sorted(enumerate(row), key=lambda x: x[1], reverse=True)
sorted_enumerate(row) ==
    [k \in 1..Len(row) |->
        LET i == CHOOSE i \in 1..Len(row) :
                    Cardinality({ j \in 1..Len(row) : SortsBefore(row, j, i) }) = k - 1
        IN  <<i, row[i]>>]

\* Python slice s[lo:hi] for 0 <= lo <= hi (0-based, hi exclusive, clipped)
PySlice(s, lo, hi) == SubSeq(s, lo + 1, Min(hi, Len(s)))

\* the slice [0:n], which does not skip the first entry
top_scores_unskipped(row, n) == PySlice(sorted_enumerate(row), 0, n)

\* sorted(...)[1:n+1]
top_scores(row, n) == PySlice(sorted_enumerate(row), 1, n + 1)

\* f"{x:.2f}" of a score in thousandths, as hundredths
Format2(x) == (x + 5) \div 10

\* pd.DataFrame(columns=['Anime', 'Similarity Score']); raised is the
\* exception the call lets through to its caller
EmptyFrame ==
    [raised |-> "none", columns |-> <<"Anime", "Similarity Score">>, rows |-> <<>>]

\* the DataFrame built from sim_scores (the Rating and Genres columns carry
\* df values picked by the same positions)
ResultFrame(d, scores) ==
    [raised  |-> "none",
     columns |-> <<"Anime", "Similarity Score", "Rating", "Genres">>,
     rows    |-> [k \in 1..Len(scores) |->
                    [Anime |-> d[scores[k][1]].name, Score |-> Format2(scores[k][2])]]]

\* list.sort() on the row instead of sorted(): the row itself is reordered
MatrixSortedInPlace(m, i) ==
    [m EXCEPT ![i] = [k \in 1..Len(m[i]) |-> sorted_enumerate(m[i])[k][2]]]

\* sorted() builds a new list: the matrix row it is given is left as it is
MatrixAfterSorted(m, i) == m

NoCall == [title |-> None, n |-> 0]

get_recommendations(query, n) ==
    /\ UNCHANGED <<sectionVars, formVars, hookVars, serviceVars, pageVars, authVars,
                   cardVars>>
    /\ call' = [title |-> query, n |-> n]
    /\ df' = df
    /\ IF query = None
       THEN \* title.lower() raises AttributeError, caught by the except clause
            /\ stdout' = "Error getting recommendations"
            /\ idx' = 0
            /\ sim_scores' = <<>>
            /\ ret' = EmptyFrame
            /\ similarity_matrix' = similarity_matrix
       ELSE /\ idx' = resolve(df, query)
            /\ IF idx' # 0
               THEN /\ stdout' = IF any(exact_matches(df, query)) THEN ""
                                 ELSE "No exact match"
                    /\ sim_scores' = top_scores(similarity_matrix[idx'], n)
                    /\ ret' = ResultFrame(df, sim_scores')
                    /\ similarity_matrix' = MatrixAfterSorted(similarity_matrix, idx')
               ELSE /\ stdout' = "No anime found"
                    /\ sim_scores' = <<>>
                    /\ ret' = EmptyFrame
                    /\ similarity_matrix' = similarity_matrix

EngineIdle ==
    /\ call = NoCall
    /\ idx = 0
    /\ sim_scores = <<>>
    /\ ret = EmptyFrame
    /\ stdout = ""

InitEngine ==
    /\ df \in Catalogs
    /\ similarity_matrix = SimilarityIndex(df)
    /\ EngineIdle

NextEngine == \E query \in QueryTitles, n \in 1..MaxCount : get_recommendations(query, n)

\* ------------------------------------------------------ SearchSection
Nothing == [call |-> "none"]

\* texts typed into the title field
TitleTexts == Strings({" ", "a"}, MaxTextLen)

\* values of the user id field (an <input type="number">)
UserIdTexts == { <<>>, <<"1">> }

\* e.target.value of the count field's change events
CountTexts ==
    { <<>>, <<"x">>, <<"0">>, <<"-", "3">>, <<"1">>, <<"5">>, <<"2", "0">>, <<"2", "1">> }

defaultAnimeTypes == <<"all", "tv", "movie", "ova", "ona", "special", "music">>

\* bodies of /api/types: data.types
TypeResponses == { <<"TV", "Movie">> }

\* String.prototype.toLowerCase on a type tag
toLowerCase(tag) ==
    CASE tag = "TV" -> "tv" [] tag = "Movie" -> "movie" [] tag = "OVA" -> "ova"
      [] tag = "ONA" -> "ona" [] tag = "Special" -> "special" [] tag = "Music" -> "music"
      [] OTHER -> tag

\* [{ value: "all" }, ...data.types.map(type => ({ value: type.toLowerCase() }))]
formattedTypes(types) == <<"all">> \o [k \in 1..Len(types) |-> toLowerCase(types[k])]

\* String.prototype.trim
trim(s) ==
    IF \A k \in 1..Len(s) : s[k] = " " THEN <<>>
    ELSE LET lo == CHOOSE k \in 1..Len(s) : s[k] # " " /\ \A j \in 1..(k - 1) : s[j] = " "
             hi == CHOOSE k \in 1..Len(s) : s[k] # " " /\ \A j \in (k + 1)..Len(s) : s[j] = " "
         IN  SubSeq(s, lo, hi)

DigitValue(c) ==
    CASE c = "0" -> 0 [] c = "1" -> 1 [] c = "2" -> 2 [] c = "3" -> 3 [] c = "4" -> 4
      [] c = "5" -> 5 [] c = "6" -> 6 [] c = "7" -> 7 [] c = "8" -> 8 [] c = "9" -> 9

Digits == {"0", "1", "2", "3", "4", "5", "6", "7", "8", "9"}

RECURSIVE DecimalValue(_)
DecimalValue(s) ==
    IF s = <<>> THEN 0
    ELSE 10 * DecimalValue(SubSeq(s, 1, Len(s) - 1)) + DigitValue(s[Len(s)])

\* Number(text) for integer literals: the empty string is 0, an optionally
\* signed run of digits is its value, anything else is NaN
Number(text) ==
    LET body == IF text # <<>> /\ text[1] = "-" THEN Tail(text) ELSE text
    IN  IF text = <<>> THEN [nan |-> FALSE, val |-> 0]
        ELSE IF body # <<>> /\ \A k \in 1..Len(body) : body[k] \in Digits
             THEN [nan |-> FALSE,
                   val |-> IF text[1] = "-" THEN 0 - DecimalValue(body)
                           ELSE DecimalValue(body)]
             ELSE [nan |-> TRUE, val |-> 0]

\* x || 8 for a number x: NaN and 0 are falsy
OrEight(x) == IF x.nan \/ x.val = 0 THEN 8 ELSE x.val

\* the clamp without its Math.min(20, ...)
CountUnclamped(text) == Max(1, OrEight(Number(text)))

\* Math.min(20, Math.max(1, Number(e.target.value) || 8))
CountFromInput(text) == Min(20, Max(1, OrEight(Number(text))))

\* the form without the required attribute on the user id field
SectionFormValidTitleOnly ==
    method # "collab" => title # <<>>

\* what the browser's constraint validation lets through to onSubmit:
\* the title is required unless method is collab, the user id is required
\* for collab and hybrid
SectionFormValid ==
    /\ (method # "collab" => title # <<>>)
    /\ (method \in {"collab", "hybrid"} => userId # <<>>)

\* ------------------------------------------------- request URLs (Index)
\* a URL under baseUrl: the segment after /recommend/ and the query
\* parameters in the order they are appended
Url(segment, query) == [path |-> segment, query |-> query]

\* encodeURIComponent over the characters of the form texts: a space
\* becomes %20, letters and digits stay
RECURSIVE encodeURIComponent(_)
encodeURIComponent(s) ==
    IF s = <<>> THEN <<>>
    ELSE (IF Head(s) = " " THEN <<"%", "2", "0">> ELSE <<Head(s)>>)
            \o encodeURIComponent(Tail(s))

\* the type parameter appended whatever the type is
TypeParamAlways(type) == << <<"type", type>> >>

\* if (type && type !== "all") url += `&type=${encodeURIComponent(type)}`
TypeParam(type) ==
    IF type # "" /\ type # "all" THEN << <<"type", type>> >> ELSE <<>>

\* the url of Index.handleSearch
handleSearchUrl(t, u, m, c, type) ==
    Url(m, << <<"n", c>> >> \o TypeParam(type) \o
           (CASE m = "content" -> << <<"title", encodeURIComponent(t)>> >>
              [] m = "collab" -> << <<"user_id", u>> >>
              [] m = "hybrid" -> << <<"title", encodeURIComponent(t)>>, <<"user_id", u>> >>
              [] OTHER -> <<>>))

\* the url of Index.handleRandomSearch
handleRandomSearchUrl(c, type) ==
    Url("random", << <<"n", c>> >> \o TypeParam(type))

\* the keys of a URL's query, and the values sent under a key
Keys(url) == { url.query[k][1] : k \in DOMAIN url.query }
Values(url, key) == { url.query[k][2] : k \in { j \in DOMAIN url.query : url.query[j][1] = key } }

setTitle(text) ==
    /\ title' = text
    /\ emitted' = Nothing
    /\ UNCHANGED <<userId, method, count, selectedType, availableTypes,
                   typesLoading, typesFetch, loading>>
    /\ UNCHANGED exceptSection

setUserId(text) ==
    /\ userId' = text
    /\ emitted' = Nothing
    /\ UNCHANGED <<title, method, count, selectedType, availableTypes,
                   typesLoading, typesFetch, loading>>
    /\ UNCHANGED exceptSection

handleMethodChange(value) ==
    /\ method' = value
    /\ emitted' = Nothing
    /\ UNCHANGED <<title, userId, count, selectedType, availableTypes,
                   typesLoading, typesFetch, loading>>
    /\ UNCHANGED exceptSection

handleCountChange(text) ==
    /\ count' = CountFromInput(text)
    /\ emitted' = Nothing
    /\ UNCHANGED <<title, userId, method, selectedType, availableTypes,
                   typesLoading, typesFetch, loading>>
    /\ UNCHANGED exceptSection

\* the Select is disabled while typesLoading and offers availableTypes
handleTypeChange(value) ==
    /\ ~typesLoading
    /\ \E k \in 1..Len(availableTypes) : availableTypes[k] = value
    /\ selectedType' = value
    /\ emitted' = IF value # "all" THEN [call |-> "toast", type |-> value] ELSE Nothing
    /\ UNCHANGED <<title, userId, method, count, availableTypes,
                   typesLoading, typesFetch, loading>>
    /\ UNCHANGED exceptSection

\* the submit button is disabled while loading; a submit that passes the
\* guard calls onSearch, whose first statement on the page sets loading
handleSearch ==
    /\ ~loading
    /\ SectionFormValid
    /\ IF trim(title) = <<>> /\ method # "collab"
       THEN emitted' = Nothing /\ loading' = loading
       ELSE /\ emitted' = [call |-> "onSearch", title |-> title, userId |-> userId,
                           method |-> method, count |-> count, type |-> selectedType,
                           url |-> handleSearchUrl(title, userId, method, count,
                                                   selectedType)]
            /\ loading' = TRUE
    /\ UNCHANGED <<title, userId, method, count, selectedType, availableTypes,
                   typesLoading, typesFetch>>
    /\ UNCHANGED exceptSection

handleRandomSearch ==
    /\ ~loading
    /\ emitted' = [call |-> "onRandomSearch", count |-> count, type |-> selectedType,
                   url |-> handleRandomSearchUrl(count, selectedType)]
    /\ loading' = TRUE
    /\ UNCHANGED <<title, userId, method, count, selectedType, availableTypes,
                   typesLoading, typesFetch>>
    /\ UNCHANGED exceptSection

\* the page's request settles: the finally block clears loading
searchSettled ==
    /\ loading
    /\ loading' = FALSE
    /\ emitted' = Nothing
    /\ UNCHANGED <<title, userId, method, count, selectedType, availableTypes,
                   typesLoading, typesFetch>>
    /\ UNCHANGED exceptSection

\* the mount effect starts fetchAvailableTypes
fetchAvailableTypes ==
    /\ typesFetch = "idle"
    /\ typesFetch' = "pending"
    /\ typesLoading' = TRUE
    /\ emitted' = Nothing
    /\ UNCHANGED <<title, userId, method, count, selectedType, availableTypes, loading>>
    /\ UNCHANGED exceptSection

\* response.ok with a body that has a types array
typesFetched(types) ==
    /\ typesFetch = "pending"
    /\ typesFetch' = "settled"
    /\ availableTypes' = formattedTypes(types)
    /\ typesLoading' = FALSE
    /\ emitted' = Nothing
    /\ UNCHANGED <<title, userId, method, count, selectedType, loading>>
    /\ UNCHANGED exceptSection

\* response not ok, or fetch / json() / data.types.map throws
typesFetchFailed ==
    /\ typesFetch = "pending"
    /\ typesFetch' = "settled"
    /\ typesLoading' = FALSE
    /\ emitted' = Nothing
    /\ UNCHANGED <<title, userId, method, count, selectedType, availableTypes, loading>>
    /\ UNCHANGED exceptSection

SectionMounted ==
    /\ title = <<>>
    /\ userId = <<>>
    /\ method = "content"
    /\ count = 8
    /\ selectedType = "all"
    /\ availableTypes = defaultAnimeTypes
    /\ typesLoading = FALSE
    /\ typesFetch = "idle"
    /\ loading = FALSE
    /\ emitted = Nothing

NextSection ==
    \/ \E text \in TitleTexts : setTitle(text)
    \/ \E text \in UserIdTexts : setUserId(text)
    \/ \E value \in {"content", "collab", "hybrid"} : handleMethodChange(value)
    \/ \E text \in CountTexts : handleCountChange(text)
    \/ \E k \in 1..Len(availableTypes) : handleTypeChange(availableTypes[k])
    \/ handleSearch
    \/ handleRandomSearch
    \/ searchSettled
    \/ fetchAvailableTypes
    \/ \E types \in TypeResponses : typesFetched(types)
    \/ typesFetchFailed

\* --------------------------------------------------------- SearchForm
FormTypes == {"content", "collaborative", "hybrid"}

\* values of the count field
FormCountTexts == { <<>>, <<"5">>, <<"2", "1">> }

\* what the browser's constraint validation lets through to onSubmit: the
\* fields of the active tab are required
FormValid ==
    /\ (formData.type \in {"content", "hybrid"} => formData.title # <<>>)
    /\ (formData.type \in {"collaborative", "hybrid"} => formData.userId # <<>>)

setFormType(value) ==
    /\ formData' = [formData EXCEPT !.type = value]
    /\ formEmitted' = Nothing
    /\ UNCHANGED <<isLoading, exceptForm>>

setFormTitle(text) ==
    /\ formData' = [formData EXCEPT !.title = text]
    /\ formEmitted' = Nothing
    /\ UNCHANGED <<isLoading, exceptForm>>

setFormUserId(text) ==
    /\ formData' = [formData EXCEPT !.userId = text]
    /\ formEmitted' = Nothing
    /\ UNCHANGED <<isLoading, exceptForm>>

setFormCount(text) ==
    /\ formData' = [formData EXCEPT !.count = text]
    /\ formEmitted' = Nothing
    /\ UNCHANGED <<isLoading, exceptForm>>

\* the parent re-renders the form with another isLoading
setIsLoading(b) ==
    /\ isLoading' = b
    /\ formEmitted' = Nothing
    /\ UNCHANGED <<formData, exceptForm>>

\* part_002, lines 30-45
SubmitPasses002 ==
    /\ ~(formData.type = "content" /\ trim(formData.title) = <<>>)
    /\ ~(formData.type = "collaborative" /\ trim(formData.userId) = <<>>)
    /\ ~(formData.type = "hybrid"
           /\ (trim(formData.title) = <<>> \/ trim(formData.userId) = <<>>))

\* part_003, lines 32-40
SubmitPasses003 ==
    ~(formData.type = "collaborative" /\ formData.userId = <<>>)

handleSubmit002 ==
    /\ ~isLoading
    /\ FormValid
    /\ formEmitted' = IF SubmitPasses002 THEN [call |-> "onSearch", params |-> formData]
                      ELSE Nothing
    /\ UNCHANGED <<formData, isLoading, exceptForm>>

handleSubmit003 ==
    /\ ~isLoading
    /\ FormValid
    /\ formEmitted' = IF SubmitPasses003 THEN [call |-> "onSearch", params |-> formData]
                      ELSE Nothing
    /\ UNCHANGED <<formData, isLoading, exceptForm>>

\* onSearch({ type: 'random', count: formData.count })
handleRandomClick ==
    /\ ~isLoading
    /\ formEmitted' = [call |-> "onSearch",
                       params |-> [type |-> "random", count |-> formData.count]]
    /\ UNCHANGED <<formData, isLoading, exceptForm>>

FormMounted ==
    /\ formData = [type |-> "content", title |-> <<>>, userId |-> <<>>, count |-> <<"5">>]
    /\ isLoading = FALSE
    /\ formEmitted = Nothing

NextForm002 ==
    \/ \E value \in FormTypes : setFormType(value)
    \/ \E text \in TitleTexts : setFormTitle(text)
    \/ \E text \in UserIdTexts : setFormUserId(text)
    \/ \E text \in FormCountTexts : setFormCount(text)
    \/ \E b \in BOOLEAN : setIsLoading(b)
    \/ handleSubmit002

NextForm003 ==
    \/ \E value \in FormTypes : setFormType(value)
    \/ \E text \in TitleTexts : setFormTitle(text)
    \/ \E text \in UserIdTexts : setFormUserId(text)
    \/ \E text \in FormCountTexts : setFormCount(text)
    \/ \E b \in BOOLEAN : setIsLoading(b)
    \/ handleSubmit003
    \/ handleRandomClick

\* ------------------------- Query Resolver (from the specification)
\* the type a request is served with: the type parameter of its URL,
\* "all" when it carries none
ServedType(url) ==
    IF "type" \in Keys(url) THEN CHOOSE t \in Values(url, "type") : TRUE ELSE "all"

\* filterByType(results, typeTag), its results argument as items: no-op for the sentinel "all"
filterByType(items, typeTag) ==
    IF typeTag = "all" THEN items
    ELSE SelectSeq(items, LAMBDA r : r.type = typeTag)

\* result lists a strategy can hand to the type filter
ResultLists == UNION { [1..k -> ItemPool] : k \in 0..2 }

\* sampleRandom draws from allOfType(typeTag), or from the whole catalog
\* for the sentinel
allOfType(d, typeTag) == { i \in 1..Len(d) : typeTag = "all" \/ d[i].type = typeTag }

\* draws with replacement
SamplesWithReplacement(pool, k) == [1..k -> pool]

\* the draws of k indices without replacement
Samples(pool, k) == { s \in [1..k -> pool] : \A i, j \in 1..k : s[i] = s[j] => i = j }

\* type tags a request can carry
TypeTags == {"all", "tv", "movie", "ova"}

NoRequest == [op |-> "none"]

\* sampleRandom(n, typeTag): n distinct indices of the (type-filtered)
\* catalog, or as many as there are
sampleRandom(n, typeTag) ==
    /\ \E s \in Samples(allOfType(df, typeTag),
                        Min(n, Cardinality(allOfType(df, typeTag)))) :
          result' = [raised |-> "none", rows |-> s]
    /\ request' = [op |-> "sampleRandom", n |-> n, type |-> typeTag]
    /\ UNCHANGED <<engineVars, sectionVars, formVars, hookVars, pageVars, authVars,
                   cardVars>>

ServiceIdle == request = NoRequest /\ result = NoRequest

NextRandom == \E n \in 1..MaxCount, typeTag \in TypeTags : sampleRandom(n, typeTag)

\* ------------------------- Hybrid Combiner (from the specification)
\* percentiles are counted in 1/Scale, combined scores in 1/(10 * Scale)
Scale == 60

ContentWeight == 6
CollabWeight == 4

\* score lists an engine hands over: (index, score) pairs, every index at
\* most once, in non-increasing score order
ScoreLists(scores) ==
    UNION { { l \in [1..k -> (1..MaxItems) \X scores] :
                /\ \A i, j \in 1..k : l[i][1] = l[j][1] => i = j
                /\ \A i \in 1..(k - 1) : l[i][2] >= l[i + 1][2] } : k \in 0..MaxScores }

\* similarity scores in tenths, predicted ratings in units
ContentScores == {5, 9}
CollabScores == {6, 8}

Indices(l) == { l[k][1] : k \in DOMAIN l }
PositionOf(l, i) == CHOOSE k \in DOMAIN l : l[k][1] = i

\* percentile rank of the entry of index i within its own list: the share
\* of the list's entries that score no higher
percentile(l, i) ==
    (Cardinality({ k \in DOMAIN l : l[k][2] <= l[PositionOf(l, i)][2] }) * Scale) \div Len(l)

\* both lists end to end, an index of both lists twice
ConcatenatedIndices(c, b) == [k \in 1..Len(c) |-> c[k][1]] \o [k \in 1..Len(b) |-> b[k][1]]

\* the indices of either list, each once, in the order of first
\* appearance: the content list, then the collaborative list
MergedIndices(c, b) ==
    [k \in 1..Len(c) |-> c[k][1]]
        \o SelectSeq([k \in 1..Len(b) |-> b[k][1]], LAMBDA i : i \notin Indices(c))

\* the blend with the weight of a missing source counted as lost
CombinedScoreUnnormalized(c, b, i) ==
    (IF i \in Indices(c) THEN ContentWeight * percentile(c, i) ELSE 0)
        + (IF i \in Indices(b) THEN CollabWeight * percentile(b, i) ELSE 0)

\* 0.6 * percentile(content) + 0.4 * percentile(collab); for an index of
\* one list, that list's weight renormalised against itself
CombinedScore(c, b, i) ==
    LET wc == IF i \in Indices(c) THEN ContentWeight ELSE 0
        wb == IF i \in Indices(b) THEN CollabWeight ELSE 0
        pc == IF i \in Indices(c) THEN percentile(c, i) ELSE 0
        pb == IF i \in Indices(b) THEN percentile(b, i) ELSE 0
    IN  ((wc * pc + wb * pb) * (ContentWeight + CollabWeight)) \div (wc + wb)

\* descending combined score, ties in the order of first appearance
Combined(c, b) ==
    LET ids == MergedIndices(c, b)
        ranked == sorted_enumerate([k \in 1..Len(ids) |-> CombinedScore(c, b, ids[k])])
    IN  [k \in 1..Len(ranked) |-> <<ids[ranked[k][1]], ranked[k][2]>>]

combine(contentScores, collabScores) ==
    /\ request' = [op |-> "combine", content |-> contentScores, collab |-> collabScores]
    /\ result' = [raised |-> "none", rows |-> Combined(contentScores, collabScores)]
    /\ UNCHANGED <<engineVars, sectionVars, formVars, hookVars, pageVars, authVars,
                   cardVars>>

NextCombiner ==
    \E contentScores \in ScoreLists(ContentScores), collabScores \in ScoreLists(CollabScores) :
        combine(contentScores, collabScores)

\* ------------------------------------------- useAnimeRecommendations
undefined == <<"undefined">>

\* the params a SearchForm hands to onSearch: its formData with the
\* required fields of the active tab filled in, or { type: 'random', count }
\* with title and userId left out
SearchParams ==
    { p \in [type : FormTypes, title : TitleTexts, userId : UserIdTexts,
             count : FormCountTexts] :
        /\ (p.type \in {"content", "hybrid"} => p.title # <<>>)
        /\ (p.type \in {"collaborative", "hybrid"} => p.userId # <<>>) }
        \cup [type : {"random"}, title : {undefined}, userId : {undefined},
              count : FormCountTexts]

\* if (x) for a string or undefined
Truthy(x) == x # undefined /\ x # <<>>

\* the encoding of URLSearchParams.append over the characters of the form
\* texts: a space becomes +, letters and digits stay
formUrlEncode(s) == [k \in 1..Len(s) |-> IF s[k] = " " THEN "+" ELSE s[k]]

SearchParam(key, value) ==
    IF Truthy(value) THEN << <<key, formUrlEncode(value)>> >> ELSE <<>>

\* part_000: buildUrl
buildUrl(params) ==
    Url(params.type,
        SearchParam("n", params.count) \o
        (CASE params.type = "content" -> SearchParam("title", params.title)
           [] params.type = "collaborative" -> SearchParam("user_id", params.userId)
           [] params.type = "hybrid" ->
                SearchParam("title", params.title) \o SearchParam("user_id", params.userId)
           [] OTHER -> <<>>))

\* useAnimeRecommendations.ts: the url of searchRecommendations
searchUrl(params) ==
    Url(params.type,
        SearchParam("n", params.count) \o SearchParam("title", params.title)
            \o SearchParam("user_id", params.userId))

\* bodies of an ok response, and messages of a failed one
ResponseBodies == {[kind |-> "array"], [kind |-> "object"]}

\* the initial value of the results cell
null == [kind |-> "null"]

\* part_000: searchRecommendations up to its fetch
searchRecommendations000(params) ==
    /\ fetches < MaxFetches
    /\ hookIsLoading' = TRUE
    /\ error' = "null"
    /\ results' = null
    /\ lastFetch' = [params |-> params, url |-> buildUrl(params)]
    /\ fetches' = fetches + 1
    /\ UNCHANGED exceptHook

\* part_000: the fetch answers ok with a parsable body
searchSucceeded000(data) ==
    /\ fetches > 0
    /\ results' = data
    /\ hookIsLoading' = FALSE
    /\ fetches' = fetches - 1
    /\ UNCHANGED <<error, lastFetch, exceptHook>>

\* useAnimeRecommendations.ts: searchRecommendations up to its fetch
searchRecommendations(params) ==
    /\ fetches < MaxFetches
    /\ hookIsLoading' = TRUE
    /\ error' = "null"
    /\ lastFetch' = [params |-> params, url |-> searchUrl(params)]
    /\ fetches' = fetches + 1
    /\ UNCHANGED <<results, exceptHook>>

\* useAnimeRecommendations.ts: the fetch answers ok with a parsable body
searchSucceeded(data) ==
    /\ fetches > 0
    /\ results' = [results |-> data]
    /\ hookIsLoading' = FALSE
    /\ fetches' = fetches - 1
    /\ UNCHANGED <<error, lastFetch, exceptHook>>

\* both versions: the response is not ok, its body does not parse, or the
\* fetch rejects
searchFailed ==
    /\ fetches > 0
    /\ error' = "message"
    /\ hookIsLoading' = FALSE
    /\ fetches' = fetches - 1
    /\ UNCHANGED <<results, lastFetch, exceptHook>>

clearResults ==
    /\ results' = null
    /\ error' = "null"
    /\ UNCHANGED <<hookIsLoading, fetches, lastFetch, exceptHook>>

HookMounted ==
    /\ results = null
    /\ error = "null"
    /\ hookIsLoading = FALSE
    /\ fetches = 0
    /\ lastFetch = Nothing

NextHook000 ==
    \/ \E params \in SearchParams : searchRecommendations000(params)
    \/ \E data \in ResponseBodies : searchSucceeded000(data)
    \/ searchFailed
    \/ clearResults

NextHook ==
    \/ \E params \in SearchParams : searchRecommendations(params)
    \/ \E data \in ResponseBodies : searchSucceeded(data)
    \/ searchFailed
    \/ clearResults

\* --------------------------------------------------------- Index page
\* recommendations: what kind of value the cell holds, how many rows an
\* array holds, and the request whose response it came from
EmptyArray == [kind |-> "array", rows |-> 0, from |-> Nothing]

\* bodies of an ok response: an array, an object with or without a
\* hybrid array, null
PageBodies ==
    { [kind |-> "array", hybrid |-> FALSE, rows |-> 0],
      [kind |-> "array", hybrid |-> FALSE, rows |-> 2],
      [kind |-> "object", hybrid |-> FALSE, rows |-> 0],
      [kind |-> "object", hybrid |-> TRUE, rows |-> 2],
      [kind |-> "null", hybrid |-> FALSE, rows |-> 0] }

\* how a fetch settles: ok with a parsable body, ok with a body that does
\* not parse, not ok, or a rejected fetch
Outcomes == {"ok", "unparsable", "notOk", "rejected"}

\* both triggers enabled also while a request is in flight
TriggersAlwaysEnabled == TRUE

\* SearchSection's submit and random buttons are disabled={loading}
TriggersEnabled == ~loading

\* Index.handleSearch up to its fetch
IndexHandleSearch(t, u, m, c, type) ==
    /\ TriggersEnabled
    /\ Len(pending) < MaxFetches
    /\ loading' = TRUE
    /\ currentMethod' = m
    /\ currentFilter' = type
    /\ pending' = Append(pending, [method |-> m, type |-> type,
                                   url |-> handleSearchUrl(t, u, m, c, type)])
    /\ UNCHANGED <<recommendations, title, userId, method, count, selectedType,
                   availableTypes, typesLoading, typesFetch, emitted>>
    /\ UNCHANGED exceptPage

\* Index.handleRandomSearch up to its fetch
IndexHandleRandomSearch(c, type) ==
    /\ TriggersEnabled
    /\ Len(pending) < MaxFetches
    /\ loading' = TRUE
    /\ currentMethod' = "random"
    /\ currentFilter' = type
    /\ pending' = Append(pending, [method |-> "random", type |-> type,
                                   url |-> handleRandomSearchUrl(c, type)])
    /\ UNCHANGED <<recommendations, title, userId, method, count, selectedType,
                   availableTypes, typesLoading, typesFetch, emitted>>
    /\ UNCHANGED exceptPage

\* the error path without its setRecommendations([])
AfterFailureKept(req) == recommendations

\* catch: toast and setRecommendations([])
AfterFailure(req) == EmptyArray

\* what the try block leaves in recommendations for an ok response:
\* hybrid takes data.hybrid || [] (reading .hybrid of null throws, and the
\* catch stores []); content and collab take the body if it is an array
\* and [] otherwise; random stores the body as it is, and then reads
\* data.length, which throws for null
AfterOk(req, body) ==
    IF req.method = "hybrid"
    THEN IF body.kind = "null" THEN AfterFailure(req)
         ELSE IF body.kind = "object" /\ body.hybrid
              THEN [kind |-> "array", rows |-> body.rows, from |-> req]
              ELSE [kind |-> "array", rows |-> 0, from |-> req]
    ELSE IF req.method = "random"
         THEN IF body.kind = "null" THEN AfterFailure(req)
              ELSE [kind |-> body.kind, rows |-> body.rows, from |-> req]
         ELSE IF body.kind = "array"
              THEN [kind |-> "array", rows |-> body.rows, from |-> req]
              ELSE [kind |-> "array", rows |-> 0, from |-> req]

\* setLoading(false) at the end of the try block instead of in finally
LoadingAfterTryOnly(outcome) == outcome # "ok"

\* finally { setLoading(false) }: on every path
LoadingAfter(outcome) == FALSE

\* the fetch of the k-th pending request settles: the rest of the try
\* block or the catch block, then finally setLoading(false)
fetchSettled(k, outcome, body) ==
    /\ k \in 1..Len(pending)
    /\ recommendations' = IF outcome = "ok" THEN AfterOk(pending[k], body)
                          ELSE AfterFailure(pending[k])
    /\ loading' = LoadingAfter(outcome)
    /\ pending' = SubSeq(pending, 1, k - 1) \o SubSeq(pending, k + 1, Len(pending))
    /\ UNCHANGED <<currentMethod, currentFilter, title, userId, method, count,
                   selectedType, availableTypes, typesLoading, typesFetch, emitted>>
    /\ UNCHANGED exceptPage

PageMounted ==
    /\ recommendations = EmptyArray
    /\ currentMethod = ""
    /\ currentFilter = "all"
    /\ pending = <<>>

\* the arguments are those SearchSection calls onSearch and onRandomSearch
\* with
NextIndex ==
    \/ \E t \in { <<"a">> }, u \in { <<"1">> }, m \in {"content", "collab", "hybrid"},
          c \in {8}, type \in {"all", "movie"} : IndexHandleSearch(t, u, m, c, type)
    \/ \E c \in {8}, type \in {"all", "movie"} : IndexHandleRandomSearch(c, type)
    \/ \E k \in 1..MaxFetches, outcome \in Outcomes, body \in PageBodies :
          fetchSettled(k, outcome, body)

\* -------------------------------------------------------- AuthProvider
\* a bound on the auth state changes waiting for the callback
MaxEvents == 2

\* session?.user ?? null, for the sessions of the auth client: none
\* ("null"), or the session "s1" of a signed-in user
UserOf(s) == IF s = "null" THEN "null" ELSE "u1"

\* auth state changes the client emits, with the session each comes with
AuthEvents ==
    { [event |-> "SIGNED_IN", session |-> "s1"],
      [event |-> "SIGNED_OUT", session |-> "null"],
      [event |-> "USER_UPDATED", session |-> "s1"],
      [event |-> "TOKEN_REFRESHED", session |-> "s1"] }

\* how a call of the auth client ends: without an error, with an error in
\* its result, or by throwing
ProviderOutcomes == {"ok", "error", "thrown"}

\* getInitialSession: supabase.auth.getSession() reads the client's session
getSession ==
    /\ initialSession.state = "calling"
    /\ initialSession' = [state |-> "read", session |-> providerSession]
    /\ UNCHANGED <<user, session, authLoading, providerSession, events, lastToast,
                   settled, exceptAuth>>

\* getInitialSession after its await: the three setters
getInitialSessionResolved ==
    /\ initialSession.state = "read"
    /\ session' = initialSession.session
    /\ user' = UserOf(initialSession.session)
    /\ authLoading' = FALSE
    /\ initialSession' = [initialSession EXCEPT !.state = "resolved"]
    /\ UNCHANGED <<providerSession, events, lastToast, settled, exceptAuth>>

\* getInitialSession when getSession rejects: the await throws, nothing
\* catches it and no setter runs
getInitialSessionRejected ==
    /\ initialSession.state = "calling"
    /\ initialSession' = [state |-> "rejected", session |-> "null"]
    /\ UNCHANGED <<user, session, authLoading, providerSession, events, lastToast,
                   settled, exceptAuth>>

\* the auth client changes its session and emits the event
authStateChanged(e) ==
    /\ Len(events) < MaxEvents
    /\ providerSession' = e.session
    /\ events' = Append(events, e)
    /\ UNCHANGED <<user, session, authLoading, initialSession, lastToast, settled,
                   exceptAuth>>

\* the callback given to onAuthStateChange, called with the oldest event:
\* the three setters, then the toast of the event
onAuthStateChange ==
    /\ events # <<>>
    /\ session' = Head(events).session
    /\ user' = UserOf(Head(events).session)
    /\ authLoading' = FALSE
    /\ lastToast' =
           IF Head(events).event = "SIGNED_IN"
           THEN [title |-> "Welcome back!", variant |-> "default"]
           ELSE IF Head(events).event = "SIGNED_OUT"
           THEN [title |-> "Signed out", variant |-> "default"]
           ELSE IF Head(events).event = "USER_UPDATED"
           THEN [title |-> "Account created!", variant |-> "default"]
           ELSE lastToast
    /\ events' = Tail(events)
    /\ UNCHANGED <<initialSession, providerSession, settled, exceptAuth>>

\* how the promise of an operation settles after its catch block
AfterCatchSwallowed(rethrows) == "resolved"
AfterCatch(rethrows) == IF rethrows THEN "rejected" ELSE "resolved"

\* the operations of the context, each the call of the auth client and
\* its catch block, which runs when the result carries an error or the
\* call throws
signInWithGoogle(outcome) ==
    /\ lastToast' = IF outcome = "ok" THEN lastToast
                    ELSE [title |-> "Authentication Error", variant |-> "destructive"]
    /\ settled' = [op |-> "signInWithGoogle",
                   promise |-> IF outcome = "ok" THEN "resolved" ELSE AfterCatch(FALSE)]
    /\ UNCHANGED <<user, session, authLoading, initialSession, providerSession, events,
                   exceptAuth>>

signInWithGitHub(outcome) ==
    /\ lastToast' = IF outcome = "ok" THEN lastToast
                    ELSE [title |-> "Authentication Error", variant |-> "destructive"]
    /\ settled' = [op |-> "signInWithGitHub",
                   promise |-> IF outcome = "ok" THEN "resolved" ELSE AfterCatch(FALSE)]
    /\ UNCHANGED <<user, session, authLoading, initialSession, providerSession, events,
                   exceptAuth>>

signInWithEmail(outcome) ==
    /\ lastToast' = IF outcome = "ok" THEN lastToast
                    ELSE [title |-> "Authentication Error", variant |-> "destructive"]
    /\ settled' = [op |-> "signInWithEmail",
                   promise |-> IF outcome = "ok" THEN "resolved" ELSE AfterCatch(TRUE)]
    /\ UNCHANGED <<user, session, authLoading, initialSession, providerSession, events,
                   exceptAuth>>

signUpWithEmail(outcome) ==
    /\ lastToast' = IF outcome = "ok" THEN lastToast
                    ELSE [title |-> "Authentication Error", variant |-> "destructive"]
    /\ settled' = [op |-> "signUpWithEmail",
                   promise |-> IF outcome = "ok" THEN "resolved" ELSE AfterCatch(TRUE)]
    /\ UNCHANGED <<user, session, authLoading, initialSession, providerSession, events,
                   exceptAuth>>

signOut(outcome) ==
    /\ lastToast' = IF outcome = "ok" THEN lastToast
                    ELSE [title |-> "Error", variant |-> "destructive"]
    /\ settled' = [op |-> "signOut",
                   promise |-> IF outcome = "ok" THEN "resolved" ELSE AfterCatch(FALSE)]
    /\ UNCHANGED <<user, session, authLoading, initialSession, providerSession, events,
                   exceptAuth>>

resetPassword(outcome) ==
    /\ lastToast' = IF outcome = "ok" THEN [title |-> "Password reset sent", variant |-> "default"]
                    ELSE [title |-> "Error", variant |-> "destructive"]
    /\ settled' = [op |-> "resetPassword",
                   promise |-> IF outcome = "ok" THEN "resolved" ELSE AfterCatch(TRUE)]
    /\ UNCHANGED <<user, session, authLoading, initialSession, providerSession, events,
                   exceptAuth>>

\* the provider after its first render: the effect has called
\* getInitialSession and subscribed the callback
AuthMounted ==
    /\ user = "null"
    /\ session = "null"
    /\ authLoading = TRUE
    /\ initialSession = [state |-> "calling", session |-> "null"]
    /\ providerSession = "null"
    /\ events = <<>>
    /\ lastToast = Nothing
    /\ settled = Nothing

NextAuth ==
    \/ getSession
    \/ getInitialSessionResolved
    \/ getInitialSessionRejected
    \/ \E e \in AuthEvents : authStateChanged(e)
    \/ onAuthStateChange
    \/ \E outcome \in ProviderOutcomes : signInWithGoogle(outcome)
    \/ \E outcome \in ProviderOutcomes : signInWithGitHub(outcome)
    \/ \E outcome \in ProviderOutcomes : signInWithEmail(outcome)
    \/ \E outcome \in ProviderOutcomes : signUpWithEmail(outcome)
    \/ \E outcome \in ProviderOutcomes : signOut(outcome)
    \/ \E outcome \in ProviderOutcomes : resetPassword(outcome)

\* -------------------------------------------------- RecommendationCard
\* JavaScript values are records tagged with their kind: numbers (held
\* in thousandths), strings (sequences of characters), undefined (what
\* reading a missing property gives) and NaN. An expression of the render
\* evaluates to a text, or throws a TypeError.

\* anime[f]
Field(a, f) == IF f \in DOMAIN a THEN a[f] ELSE [kind |-> "undefined"]

Falsy(v) ==
    \/ v.kind \in {"undefined", "NaN"}
    \/ v.kind = "number" /\ v.n = 0
    \/ v.kind = "string" /\ v.s = <<>>

\* parseFloat on unsigned decimal strings: the longest numeric prefix, NaN
\* when there is none
parseFloat(s) ==
    LET RECURSIVE LeadingDigits(_)
        LeadingDigits(t) ==
            IF t = <<>> \/ Head(t) \notin Digits THEN <<>>
            ELSE <<Head(t)>> \o LeadingDigits(Tail(t))
        whole == LeadingDigits(s)
        rest == SubSeq(s, Len(whole) + 1, Len(s))
        fraction == IF rest # <<>> /\ Head(rest) = "." THEN LeadingDigits(Tail(rest))
                    ELSE <<>>
    IN  IF whole = <<>> /\ fraction = <<>> THEN [kind |-> "NaN"]
        ELSE [kind |-> "number",
              n |-> DecimalValue(whole) * 1000
                    + DecimalValue(SubSeq(fraction \o <<"0", "0", "0">>, 1, 3))]

\* val.toFixed(1) followed by a unit: reading toFixed of undefined throws,
\* NaN prints as NaN, a number is rounded to tenths
toFixed1(v, unit) ==
    IF v.kind = "undefined" THEN [threw |-> TRUE]
    ELSE IF v.kind = "number"
    THEN [threw |-> FALSE, text |-> [tenths |-> (v.n + 50) \div 100, unit |-> unit]]
    ELSE [threw |-> FALSE, text |-> [nan |-> TRUE, unit |-> unit]]

\* getScoreDisplay: null, or the label, the value (a || b takes b when a
\* is falsy) and the format function
getScoreDisplay(a, t) ==
    LET similarity == Field(a, "Similarity Score")
        predicted == Field(a, "Predicted Rating")
        combined == Field(a, "Combined_Score")
    IN  IF t = "content"
        THEN [label |-> "Similarity",
              value |-> IF Falsy(similarity) THEN Field(a, "Similarity_Score")
                        ELSE similarity,
              format |-> "percent"]
        ELSE IF t = "collaborative"
        THEN [label |-> "Predicted Rating",
              value |-> IF Falsy(predicted) THEN Field(a, "Predicted_Rating")
                        ELSE predicted,
              format |-> "rating"]
        ELSE IF t = "hybrid"
        THEN [label |-> "Combined Score",
              value |-> parseFloat(IF Falsy(combined) THEN <<"0">> ELSE combined.s),
              format |-> "percent"]
        ELSE IF t = "random" /\ ~Falsy(Field(a, "Members"))
        THEN [label |-> "Members", value |-> Field(a, "Members"), format |-> "locale"]
        ELSE null

\* the JSX of RecommendationCard: title, score line, method badge, rating
\* line, the first four genres and the count of the others; an element
\* the render leaves out is hidden; val * 100 of a value that is not a
\* number is NaN
render(a, t) ==
    LET hidden == [threw |-> FALSE, hidden |-> TRUE]
        scoreInfo == getScoreDisplay(a, t)
        val == scoreInfo.value
        score == IF scoreInfo = null THEN hidden
                 ELSE IF scoreInfo.format = "percent"
                 THEN toFixed1(IF val.kind = "number"
                               THEN [kind |-> "number", n |-> val.n * 100]
                               ELSE [kind |-> "NaN"], "%")
                 ELSE IF scoreInfo.format = "rating" THEN toFixed1(val, "/10")
                 ELSE [threw |-> FALSE, text |-> [locale |-> val]]
        methodBadge == IF Falsy(Field(a, "Method")) THEN hidden
                       ELSE [threw |-> FALSE, text |-> Field(a, "Method")]
        rated == IF Falsy(Field(a, "Rating")) THEN Field(a, "Content_Rating")
                 ELSE Field(a, "Rating")
        rating == IF Falsy(rated) THEN hidden ELSE toFixed1(rated, "/10")
        genres == a["Genres"]
    IN  IF score.threw \/ rating.threw THEN [threw |-> TRUE]
        ELSE [threw |-> FALSE,
              title |-> a["Anime"],
              score |-> score,
              method |-> methodBadge,
              rating |-> rating,
              genres |-> SubSeq(genres, 1, Min(4, Len(genres))),
              more |-> Max(0, Len(genres) - 4)]

\* recommendation records: the required fields Anime and Genres, and any
\* of the optional ones
AnimeRecords ==
    LET Num(n) == [kind |-> "number", n |-> n]
        Str(t) == [kind |-> "string", s |-> t]
        WithOptional(recs, f, values) ==
            recs \cup { r @@ (f :> v) : r \in recs, v \in values }
        r0 == { [Anime |-> "Naruto", Genres |-> g] :
                  g \in { <<>>, <<"Action", "Adventure", "Comedy", "Drama", "Fantasy">> } }
        r1 == WithOptional(r0, "Similarity Score", {Num(0), Num(870)})
        r2 == WithOptional(r1, "Similarity_Score", {Num(870)})
        r3 == WithOptional(r2, "Predicted Rating", {Num(0), Num(7640)})
        r4 == WithOptional(r3, "Predicted_Rating", {Num(7640)})
        r5 == WithOptional(r4, "Combined_Score",
                           {Str(<<"0", ".", "8", "5">>), Str(<<"x">>)})
        r6 == WithOptional(r5, "Members", {Num(0), Num(1500000)})
        r7 == WithOptional(r6, "Rating", {Num(8250)})
    IN  WithOptional(r7, "Method", {Str(<<"h">>)})

\* rendering the component
RecommendationCard ==
    /\ rendered = Nothing
    /\ rendered' = render(anime, cardType)
    /\ UNCHANGED <<anime, cardType>>
    /\ UNCHANGED <<engineVars, sectionVars, formVars, hookVars, serviceVars, pageVars,
                   authVars>>

CardUnrendered ==
    /\ anime = [Anime |-> "Naruto", Genres |-> <<>>]
    /\ cardType = "content"
    /\ rendered = Nothing

NextCard == RecommendationCard

\* ---------------------------------------------------- specifications
\* the hook, the resolver, the page, the auth provider and a card before
\* their first use
Unused == HookMounted /\ ServiceIdle /\ PageMounted /\ AuthMounted /\ CardUnrendered

EngineUnloaded == df = <<>> /\ similarity_matrix = <<>> /\ EngineIdle

\* every component before its first use: the state each of the
\* specifications below starts from, but for its own component
InitUnused == EngineUnloaded /\ SectionMounted /\ FormMounted /\ Unused

\* the recommender under every call
InitEngineSpec == InitEngine /\ SectionMounted /\ FormMounted /\ Unused

SpecEngine == InitEngineSpec /\ [][NextEngine]_vars

\* the SearchSection form on the page
SpecSection == InitUnused /\ [][NextSection]_vars

\* the SearchForm of part_002 and the SearchForm of part_003
SpecForm002 == InitUnused /\ [][NextForm002]_vars

SpecForm003 == InitUnused /\ [][NextForm003]_vars

\* random sampling over every catalog
InitRandom ==
    /\ df \in Catalogs /\ similarity_matrix = SimilarityIndex(df) /\ EngineIdle
    /\ SectionMounted /\ FormMounted /\ Unused

SpecRandom == InitRandom /\ [][NextRandom]_vars

\* the hook of part_000 and the hook of useAnimeRecommendations.ts
SpecHook000 == InitUnused /\ [][NextHook000]_vars

SpecHook == InitUnused /\ [][NextHook]_vars

\* the Index page with its SearchSection's triggers
SpecIndex == InitUnused /\ [][NextIndex]_vars

\* the page and the hook of part_000 when every fetch settles: a fetch
\* promise resolves or rejects
SpecIndexFair ==
    SpecIndex /\ WF_vars(\E k \in 1..MaxFetches, outcome \in Outcomes, body \in PageBodies :
                            fetchSettled(k, outcome, body))

SpecHook000Fair ==
    SpecHook000 /\ WF_vars((\E data \in ResponseBodies : searchSucceeded000(data))
                              \/ searchFailed)

\* the auth provider from its mount, whatever session the client holds
InitAuth ==
    /\ EngineUnloaded /\ SectionMounted /\ FormMounted
    /\ HookMounted /\ ServiceIdle /\ PageMounted /\ CardUnrendered
    /\ user = "null" /\ session = "null" /\ authLoading = TRUE
    /\ initialSession = [state |-> "calling", session |-> "null"]
    /\ providerSession \in {"null", "s1"}
    /\ events = <<>> /\ lastToast = Nothing /\ settled = Nothing

SpecAuth == InitAuth /\ [][NextAuth]_vars

\* a card rendered with every record and type
InitCard ==
    /\ EngineUnloaded /\ SectionMounted /\ FormMounted
    /\ HookMounted /\ ServiceIdle /\ PageMounted /\ AuthMounted
    /\ anime \in AnimeRecords
    /\ cardType \in {"content", "collaborative", "hybrid", "random"}
    /\ rendered = Nothing

SpecCard == InitCard /\ [][NextCard]_vars

\* the combiner over every pair of score lists
SpecCombiner == InitUnused /\ [][NextCombiner]_vars

\* ------------------------------------------------------------ claims
\* ------------------------------------------------- get_recommendations
Called == call.n > 0
TitleGiven == Called /\ call.title # None
Rows == 1..Len(df)
ExactAt(i) == str_lower(df[i].name) = str_lower(call.title)
ContainsAt(i) == IsSubstring(str_upper(call.title), str_upper(df[i].name))
Returned == { sim_scores[k][1] : k \in DOMAIN sim_scores }

\* C1: when some catalog title equals the query case-insensitively, the
\* call resolves to an exactly-equal title (without the "no exact match"
\* notice), also when an earlier title merely contains the query.
C1_ExactMatchFirst ==
    (TitleGiven /\ \E i \in Rows : ExactAt(i))
        => (idx \in Rows /\ ExactAt(idx) /\ stdout = "")

C1_Witness ==
    /\ TitleGiven /\ Len(df) >= 2
    /\ idx = 2 /\ ExactAt(2) /\ ~ExactAt(1) /\ ContainsAt(1)

\* C2: the returned list never holds the query item itself, has at most n
\* entries and is sorted by non-increasing score, also when another item is
\* as similar to the query item as the query item is to itself.
C2_TopSimilarContract ==
    idx # 0 =>
        /\ idx \notin Returned
        /\ Len(sim_scores) <= call.n
        /\ \A k \in 1..(Len(sim_scores) - 1) : sim_scores[k][2] >= sim_scores[k + 1][2]

\* C3: a title with neither an exact nor a substring match reaches the
\* caller as a NotFound error, never as an empty result.  (Stated for a
\* non-empty title and a catalog of two or more items, so that neither an
\* invalid argument nor the degenerate catalog is what fails.)
C3_NotFoundIsTypedError ==
    (/\ TitleGiven /\ call.title # <<>> /\ Len(df) >= 2
     /\ \A i \in Rows : ~ExactAt(i) /\ ~ContainsAt(i))
        => ret.raised = "NotFound"

\* C4: with no exact match, the call resolves to the first catalog row
\* whose title contains the query.
C4_FirstContainment ==
    (TitleGiven /\ (\A i \in Rows : ~ExactAt(i)) /\ (\E i \in Rows : ContainsAt(i)))
        => (idx \in Rows /\ ContainsAt(idx) /\ \A j \in 1..(idx - 1) : ~ContainsAt(j))

C4_Witness ==
    /\ TitleGiven /\ call.title # <<>> /\ Len(df) >= 2
    /\ \A i \in Rows : ~ExactAt(i)
    /\ idx = 1 /\ ContainsAt(2)

\* C5: a resolved request for n items over a catalog of s items returns
\* exactly min(n, s-1) rows with pairwise distinct catalog positions, and a
\* catalog of fewer than 2 items returns no row.
C5_ExactCountDistinct ==
    /\ idx # 0 =>
        /\ Len(sim_scores) = Min(call.n, Len(df) - 1)
        /\ Len(ret.rows) = Min(call.n, Len(df) - 1)
        /\ \A k, l \in DOMAIN sim_scores : k # l => sim_scores[k][1] # sim_scores[l][1]
        /\ Returned \subseteq Rows
    /\ (Called /\ Len(df) < 2) => ret.rows = <<>>

\* fewer items exist than were asked for: the result is shorter than n
C5_Witness ==
    idx # 0 /\ Len(df) >= 2 /\ call.n > Len(df) - 1 /\ Len(sim_scores) = Len(df) - 1

\* C6: returned items of equal score are in ascending catalog order, and
\* when items of equal score lie on both sides of the cut-off at n, the
\* returned ones are those earlier in the catalog.  (Skipped is the entry
\* that the slice leaves out in front: the best-ranked row of all.)
Skipped ==
    CHOOSE h \in Rows : \A j \in Rows \ {h} :
        \/ similarity_matrix[idx][h] > similarity_matrix[idx][j]
        \/ (similarity_matrix[idx][h] = similarity_matrix[idx][j] /\ h < j)

CutOff == Rows \ (Returned \cup {Skipped})

C6_TiesInCatalogOrder ==
    idx # 0 =>
        /\ \A k, l \in DOMAIN sim_scores :
              (k < l /\ sim_scores[k][2] = sim_scores[l][2])
                  => sim_scores[k][1] < sim_scores[l][1]
        /\ \A k \in DOMAIN sim_scores : \A x \in CutOff :
              similarity_matrix[idx][x] = sim_scores[k][2] => sim_scores[k][1] < x

\* a tie that straddles the cut-off
C6_Witness ==
    /\ idx # 0
    /\ \E k \in DOMAIN sim_scores : \E x \in CutOff :
          similarity_matrix[idx][x] = sim_scores[k][2]

\* C7: a request whose title is missing or empty fails with
\* InvalidArgument, resolves to no catalog row and returns no row.
C7_EngineRevalidates ==
    (Called /\ call.title \in {None, <<>>})
        => (ret.raised = "InvalidArgument" /\ idx = 0 /\ ret.rows = <<>>)

\* C8: no call changes the catalog or the similarity matrix, the matrix
\* stays the one precomputed from the catalog, and what a call returns is
\* what its arguments yield on that catalog and matrix, whatever calls
\* came before it.
C8_RequestsIndependent ==
    /\ [][df' = df /\ similarity_matrix' = similarity_matrix]_vars
    /\ [](similarity_matrix = SimilarityIndex(df))
    /\ [](Called =>
            /\ idx = (IF call.title = None THEN 0 ELSE resolve(df, call.title))
            /\ ret = (IF idx = 0 THEN EmptyFrame
                      ELSE ResultFrame(df, top_scores(SimilarityIndex(df)[idx], call.n))))

\* a call has sorted a matrix row that is not already in descending order
C8_Witness ==
    /\ idx # 0
    /\ \E k \in 1..(Len(df) - 1) :
          similarity_matrix[idx][k] < similarity_matrix[idx][k + 1]

\* C17: the type filter comes between title matching and truncation, so
\* whichever type a request asks for, when at least n catalog items of that
\* type (other than the query item) qualify, the n rows returned are n
\* items of that type.  (Stated for a query item that no other item is as
\* similar to as it is to itself, so that the row skipped in front is the
\* query item.)
OfType(typeTag) == { i \in Rows : df[i].type = typeTag }

C17_FilterBeforeTruncate ==
    \A typeTag \in {"tv", "movie"} :
        (/\ idx # 0
         /\ \A j \in Rows \ {idx} : similarity_matrix[idx][j] < similarity_matrix[idx][idx]
         /\ Cardinality(OfType(typeTag) \ {idx}) >= call.n)
            => /\ Len(sim_scores) = call.n
               /\ Returned \subseteq OfType(typeTag)

\* C18: ranking and truncation use the unrounded scores: the returned
\* entries carry the matrix's own values in non-increasing order, no row
\* cut off at n scores higher than a returned one, and the two-decimal
\* figure of each row is formatted from the entry already selected.
C18_RankOnFullPrecision ==
    idx # 0 =>
        /\ \A k \in DOMAIN sim_scores :
              sim_scores[k][2] = similarity_matrix[idx][sim_scores[k][1]]
        /\ \A k, l \in DOMAIN sim_scores : k < l => sim_scores[k][2] >= sim_scores[l][2]
        /\ \A k \in DOMAIN sim_scores : \A x \in CutOff :
              similarity_matrix[idx][x] <= sim_scores[k][2]
        /\ Len(ret.rows) = Len(sim_scores)
        /\ \A k \in DOMAIN sim_scores :
              /\ ret.rows[k].Anime = df[sim_scores[k][1]].name
              /\ ret.rows[k].Score = Format2(sim_scores[k][2])

\* a returned row and a row cut off show the same two decimals and differ
\* in their unrounded scores
C18_Witness ==
    /\ idx # 0
    /\ \E k \in DOMAIN sim_scores : \E x \in CutOff :
          /\ Format2(similarity_matrix[idx][x]) = ret.rows[k].Score
          /\ similarity_matrix[idx][x] < sim_scores[k][2]

\* --------------------------------------------------------- search forms
\* C9: the count of SearchSection starts at 8 and, whatever texts the count
\* field's change events carry, stays within [1,20], as does the count
\* handed to onSearch and onRandomSearch.
C9_CountInRange ==
    /\ count = 8
    /\ [](/\ count \in 1..20
          /\ emitted.call \in {"onSearch", "onRandomSearch"} => emitted.count \in 1..20)

\* a count the change handler clamped from above is handed to onSearch
C9_Witness == emitted.call = "onSearch" /\ emitted.count = 20

\* C10: no form hands a content or hybrid search with an empty or
\* all-whitespace title to its search handler.
C10_NoBlankTitleSearch ==
    /\ (emitted.call = "onSearch" /\ emitted.method \in {"content", "hybrid"})
          => trim(emitted.title) # <<>>
    /\ (formEmitted.call = "onSearch" /\ formEmitted.params.type \in {"content", "hybrid"})
          => trim(formEmitted.params.title) # <<>>


\* C11: no form hands a collaborative or hybrid search without a user id
\* to its search handler, and no request URL carries an empty user_id.
C11_NoSearchWithoutUserId ==
    /\ (emitted.call = "onSearch" /\ emitted.method \in {"collab", "hybrid"})
          => emitted.userId # <<>>
    /\ emitted.call = "onSearch" => <<>> \notin Values(emitted.url, "user_id")
    /\ (formEmitted.call = "onSearch"
           /\ formEmitted.params.type \in {"collaborative", "hybrid"})
          => formEmitted.params.userId # <<>>

\* a hybrid search went out with its user id, after the same form was
\* held back while the user id was still empty
C11_Witness ==
    /\ emitted.call = "onSearch" /\ emitted.method = "hybrid"
    /\ Values(emitted.url, "user_id") = {<<"1">>}


\* C12: the type handed to onSearch and onRandomSearch is "all" or a value
\* of the type list the form holds at that moment, also after the
\* /api/types fetch has replaced or kept the default list.
KnownTypes == { availableTypes[k] : k \in DOMAIN availableTypes }

C12_TypeIsKnown ==
    emitted.call \in {"onSearch", "onRandomSearch"}
        => (emitted.type = "all" \/ emitted.type \in KnownTypes)


\* C13: for every strategy the request URL carries a type parameter if and
\* only if the selected type is not "all" (and then carries that type), and
\* a request with "all" is served unfiltered.
C13_AllIsNoFilter ==
    emitted.call \in {"onSearch", "onRandomSearch"} =>
        /\ ("type" \in Keys(emitted.url)) <=> (emitted.type # "all")
        /\ emitted.type # "all" => Values(emitted.url, "type") = {emitted.type}
        /\ emitted.type = "all" =>
              \A items \in ResultLists :
                  filterByType(items, ServedType(emitted.url)) = items

\* a hybrid search with "all" went out without a type parameter
C13_Witness ==
    /\ emitted.call = "onSearch" /\ emitted.method = "hybrid"
    /\ emitted.type = "all" /\ Keys(emitted.url) = {"n", "title", "user_id"}


\* C19: for every numeric text v of the count field, handleCountChange
\* stores min(20, max(1, v)): 0 and negative values give 1, values above
\* 20 give 20.
C19_CountIsClamp ==
    [][\A text \in CountTexts :
          (handleCountChange(text) /\ text # <<>> /\ ~Number(text).nan)
              => count' = Min(20, Max(1, Number(text).val))]_vars

\* C20: a request carries only its strategy's parameters, whatever the
\* title and user id fields hold: content no user_id, collaborative no
\* title, random neither, and each strategy the parameters it requires
\* when the fields hold them.
OnlyOwnParams(strategy, url, t, u) ==
    /\ strategy = "content" =>
          "user_id" \notin Keys(url) /\ (trim(t) # <<>> => "title" \in Keys(url))
    /\ strategy \in {"collab", "collaborative"} =>
          "title" \notin Keys(url) /\ (u # <<>> => "user_id" \in Keys(url))
    /\ strategy = "hybrid" =>
          /\ trim(t) # <<>> => "title" \in Keys(url)
          /\ u # <<>> => "user_id" \in Keys(url)
    /\ strategy = "random" => "title" \notin Keys(url) /\ "user_id" \notin Keys(url)

C20_OnlyOwnParams ==
    /\ emitted.call = "onSearch" =>
          OnlyOwnParams(emitted.method, emitted.url, emitted.title, emitted.userId)
    /\ emitted.call = "onRandomSearch" =>
          OnlyOwnParams("random", emitted.url, <<>>, <<>>)
    /\ lastFetch # Nothing =>
          OnlyOwnParams(lastFetch.params.type, lastFetch.url,
                        IF lastFetch.params.title = undefined THEN <<>>
                        ELSE lastFetch.params.title,
                        IF lastFetch.params.userId = undefined THEN <<>>
                        ELSE lastFetch.params.userId)

\* ------------------------------------------------------ Query Resolver
Sampled == { result.rows[k] : k \in DOMAIN result.rows }

\* C14: a random request for n items of type t returns exactly
\* min(n, number of catalog items of type t) pairwise distinct catalog
\* indices that all have type t, and raises no error when fewer than n
\* items qualify.
C14_RandomSample ==
    request.op = "sampleRandom" =>
        /\ result.raised = "none"
        /\ Len(result.rows) =
              Min(request.n, Cardinality({ i \in Rows : request.type = "all"
                                                         \/ df[i].type = request.type }))
        /\ Cardinality(Sampled) = Len(result.rows)
        /\ Sampled \subseteq Rows
        /\ request.type # "all" => \A i \in Sampled : df[i].type = request.type

\* more movies were asked for than the catalog has, and it has two
C14_Witness ==
    /\ request.op = "sampleRandom" /\ request.type = "movie" /\ request.n = 3
    /\ Len(result.rows) = 2 /\ Len(df) = 3


\* ----------------------------------------------------- Hybrid Combiner
Combining == request.op = "combine"
OutIndices == { result.rows[k][1] : k \in DOMAIN result.rows }
OutScore(i) == result.rows[CHOOSE k \in DOMAIN result.rows : result.rows[k][1] = i][2]
Occurrences(i) == Cardinality({ k \in DOMAIN result.rows : result.rows[k][1] = i })
InContent(i) == \E k \in DOMAIN request.content : request.content[k][1] = i
InCollab(i) == \E k \in DOMAIN request.collab : request.collab[k][1] = i

\* C15: every index of either input list occurs exactly once in the
\* combined output and no other index occurs; an index of both lists gets
\* 0.6 of its content percentile plus 0.4 of its collaborative percentile.
C15_DeduplicatesByIndex ==
    Combining =>
        /\ \A i \in 1..MaxItems :
              Occurrences(i) = (IF InContent(i) \/ InCollab(i) THEN 1 ELSE 0)
        /\ \A i \in 1..MaxItems : (InContent(i) /\ InCollab(i)) =>
              OutScore(i) = 6 * percentile(request.content, i)
                              + 4 * percentile(request.collab, i)

\* scenario C: content [(A,0.9),(B,0.5)] and collaborative
\* [(B,8.0),(C,6.0)] give exactly A, B, C, with B at 0.6*0.5 + 0.4*1.0
C15_Witness ==
    /\ Combining
    /\ request.content = << <<1, 9>>, <<2, 5>> >>
    /\ request.collab = << <<2, 8>>, <<3, 6>> >>
    /\ result.rows = << <<1, 600>>, <<2, 420>>, <<3, 300>> >>


\* C16: an index scored by one source only gets that source's percentile
\* alone as its combined score (not 0.6 or 0.4 of it), and every combined
\* score lies in [0,1].
C16_SingleSourceRenormalised ==
    Combining =>
        /\ \A i \in 1..MaxItems : (InContent(i) /\ ~InCollab(i)) =>
              OutScore(i) = 10 * percentile(request.content, i)
        /\ \A i \in 1..MaxItems : (InCollab(i) /\ ~InContent(i)) =>
              OutScore(i) = 10 * percentile(request.collab, i)
        /\ \A k \in DOMAIN result.rows :
              result.rows[k][2] >= 0 /\ result.rows[k][2] <= 10 * Scale

\* one index scored by content only, one by the collaborative source
\* only, next to one scored by both
C16_Witness ==
    /\ Combining
    /\ \E i, j, h \in OutIndices :
          /\ InContent(i) /\ ~InCollab(i) /\ OutScore(i) = 10 * Scale
          /\ InCollab(j) /\ ~InContent(j) /\ OutScore(j) = 5 * Scale
          /\ InContent(h) /\ InCollab(h)


\* --------------------------------------------------------- Index page
Displayed == ~loading /\ recommendations.kind = "array" /\ recommendations.rows > 0

\* C21: at most one request of the page is in flight, and whenever no
\* request is in flight the recommendations that came from a response came
\* from the latest request started: currentMethod and currentFilter are its
\* method and type, so no late response of an older request has replaced a
\* newer result.
C21_OneRequestInFlight ==
    /\ Len(pending) <= 1
    /\ loading <=> (pending # <<>>)
    /\ (~loading /\ recommendations.from # Nothing) =>
          /\ recommendations.from.method = currentMethod
          /\ recommendations.from.type = currentFilter

\* results of a random request for movies are displayed
C21_Witness ==
    /\ Displayed
    /\ recommendations.from.method = "random" /\ recommendations.from.type = "movie"
    /\ currentMethod = "random" /\ currentFilter = "movie"


\* C22: every search that starts sets the loading flag, every fetch that
\* settles clears it whichever way it settles, and so a set flag is
\* eventually cleared; for the page's loading and for the hook's isLoading.
C22_LoadingEventuallyCleared ==
    /\ [][Len(pending') > Len(pending) => loading']_vars
    /\ [][Len(pending') < Len(pending) => ~loading']_vars
    /\ [][fetches' > fetches => hookIsLoading']_vars
    /\ [][fetches' < fetches => ~hookIsLoading']_vars
    /\ loading ~> ~loading
    /\ hookIsLoading ~> ~hookIsLoading

\* a search has failed and the flag is clear again
C22_Witness ==
    /\ ~loading /\ pending = <<>> /\ currentMethod = "hybrid"
    /\ recommendations = EmptyArray


\* C23: a search or random search that fails (response not ok, body that
\* does not parse, rejected fetch) leaves the empty list in
\* recommendations, whatever an earlier search had put there.
C23_FailureClearsResults ==
    [][\A k \in 1..Len(pending) : \A outcome \in Outcomes \ {"ok"} : \A body \in PageBodies :
          fetchSettled(k, outcome, body)
              => (recommendations'.kind = "array" /\ recommendations'.rows = 0)]_vars

\* the latest request, a content search, has settled and left the empty
\* list of the catch block
C23_Witness ==
    /\ ~loading /\ recommendations = EmptyArray /\ currentMethod = "content"


\* C25: recommendations holds an array in every state, for every strategy
\* and every body of an ok response (array, object with or without a
\* hybrid field, null).
\* Refuted by a random request answered ok with an object body:
\* handleRandomSearch stores the body without the Array.isArray test.
C25_RecommendationsIsArray == recommendations.kind = "array"

\* results holds a response: the body itself in part_000, the body wrapped
\* in a record in useAnimeRecommendations.ts; null otherwise
HasResults == results # null

\* C24: in the hook, whenever no search is in flight, error and results
\* are not both non-null.
\* Refuted in useAnimeRecommendations.ts by a successful search followed
\* by a failed one: the second search does not reset results.
C24_ErrorOrResults ==
    fetches = 0 => ~(HasResults /\ error # "null")

\* -------------------------------------------------------- AuthProvider
\* nothing of the mount effect is outstanding: getInitialSession has
\* finished and every emitted event has been handed to the callback
AuthQuiet == initialSession.state \in {"resolved", "rejected"} /\ events = <<>>

\* C26: session and user reflect the most recent authentication
\* information: when getInitialSession has applied its value and every
\* emitted event has been applied, they are the session the auth client
\* holds and its user, under every interleaving.
\* Refuted when getSession reads the session, an event is then emitted and
\* applied, and getInitialSession resumes with the older value.
C26_SessionIsMostRecent ==
    (initialSession.state = "resolved" /\ events = <<>>)
        => (session = providerSession /\ user = UserOf(providerSession))

\* C27: loading becomes false after mount: once getInitialSession has
\* finished, by resolving or by rejecting, and no auth state change is
\* waiting, loading is false.
\* Refuted when getSession rejects and no event arrives.
C27_LoadingClearedAfterMount ==
    AuthQuiet => ~authLoading

\* an operation failed: destructive toast, cells untouched, and the
\* promise settled as given
Failed(op, promise) ==
    /\ lastToast'.variant = "destructive"
    /\ UNCHANGED <<user, session, authLoading>>
    /\ settled' = [op |-> op, promise |-> promise]

\* C28: on a provider error (in the result, or thrown) every operation
\* shows a destructive toast and leaves user, session and loading
\* unchanged; signInWithEmail, signUpWithEmail and resetPassword reject,
\* signInWithGoogle, signInWithGitHub and signOut resolve.
C28_ErrorToastAndRethrow ==
    [][\A outcome \in ProviderOutcomes \ {"ok"} :
          /\ signInWithGoogle(outcome) => Failed("signInWithGoogle", "resolved")
          /\ signInWithGitHub(outcome) => Failed("signInWithGitHub", "resolved")
          /\ signOut(outcome) => Failed("signOut", "resolved")
          /\ signInWithEmail(outcome) => Failed("signInWithEmail", "rejected")
          /\ signUpWithEmail(outcome) => Failed("signUpWithEmail", "rejected")
          /\ resetPassword(outcome) => Failed("resetPassword", "rejected")]_vars

\* a signed-in user's sign-out failed: the error toast is up, the promise
\* resolved and the session is still there
C28_Witness ==
    /\ settled = [op |-> "signOut", promise |-> "resolved"]
    /\ lastToast = [title |-> "Error", variant |-> "destructive"]
    /\ session = "s1" /\ user = "u1" /\ ~authLoading

\* -------------------------------------------------- RecommendationCard
\* C29: rendering a card never throws for any type and any record that
\* has only the required fields Anime and Genres.
\* Refuted for type collaborative: the format function reads toFixed of
\* the undefined value.
C29_RequiredFieldsSuffice ==
    (rendered # Nothing /\ DOMAIN anime = {"Anime", "Genres"}) => ~rendered.threw

=============================================================================
